---- MODULE Spec2Model ----
(***************************************************************************)
(* Model of src/src/App.js: the earthquake-template single page app.       *)
(*                                                                         *)
(* Strings are sequences of symbols (each symbol a short ASCII string).    *)
(* The Japanese literals of the source are written in ASCII:               *)
(*   "Hokkaido", "Aomori", ...  the entries of PREFECTURES                 *)
(*   "UNKNOWN"                  the marker fumei of lines 78 and 80        *)
(*   <<"M", "UNKNOWN">>         the marker "M" + fumei of line 79          *)
(*   "NO_MATCHING_EARTHQUAKE"   the sentinel of line 85                    *)
(*   "API_CONNECTION_ERROR"     the message of line 45                     *)
(* A word between braces is one symbol, so "{time}" is <<"{","time","}">>. *)
(* An optional value is <<>> (absent: undefined or null) or <<v>>.         *)
(***************************************************************************)
EXTENDS Integers, Sequences, FiniteSets, TLC

VARIABLES mounted, selectedPref, earthquakes, selectedEq, template, filled,
          loading, error, inflight, lastEvent, inp, out

appVars == <<mounted, selectedPref, earthquakes, selectedEq, template, filled,
             loading, error, inflight, lastEvent>>
vars == <<mounted, selectedPref, earthquakes, selectedEq, template, filled,
          loading, error, inflight, lastEvent, inp, out>>

None == <<>>
Some(v) == <<v>>

\* ------------------------------------------------------------------ bounds
NumPrefs == 2
MaxInflight == 2
MaxRecords == 2
MaxPieces == 2

\* --------------------------------------------------------------- constants
PREFECTURES ==
  <<"Hokkaido", "Aomori", "Iwate", "Miyagi", "Akita", "Yamagata", "Fukushima",
    "Ibaraki", "Tochigi", "Gunma", "Saitama", "Chiba", "Tokyo", "Kanagawa",
    "Niigata", "Toyama", "Ishikawa", "Fukui", "Yamanashi", "Nagano", "Gifu",
    "Shizuoka", "Aichi", "Mie", "Shiga", "Kyoto", "Osaka", "Hyogo",
    "Nara", "Wakayama", "Tottori", "Shimane", "Okayama", "Hiroshima", "Yamaguchi",
    "Tokushima", "Kagawa", "Ehime", "Kochi", "Fukuoka", "Saga", "Nagasaki",
    "Kumamoto", "Oita", "Miyazaki", "Kagoshima", "Okinawa">>

\* The prefectures the picker offers in the model: the first NumPrefs options.
Prefs == {PREFECTURES[i] : i \in 1..NumPrefs}

DefaultTemplate ==
  <<"[EarthquakeInfo]", "{", "time", "}", " occurred. Epicenter ",
    "{", "epicenter", "}", ", M", "{", "magnitude", "}", ", max intensity ",
    "{", "maxIntensity", "}", ". (", "{", "prefecture", "}", " capital)">>

NoMatchText == <<"NO_MATCHING_EARTHQUAKE">>
ApiErrorMessage == "API_CONNECTION_ERROR"
NetworkErrorMessage == "Failed to fetch"

\* ------------------------------------------------------------ fillTemplate
Token(name) == <<"{", name, "}">>

\* Does the token start at position i of s?
MatchAt(s, tok, i) ==
  /\ i + Len(tok) - 1 <= Len(s)
  /\ \A k \in 1..Len(tok) : s[i + k - 1] = tok[k]

\* String.prototype.replace with a string replacement: "$$" inserts "$" and
\* "$&" inserts the matched text; every other symbol is inserted as it is.
RECURSIVE ExpandReplacement(_, _)
ExpandReplacement(val, matched) ==
  IF val = <<>> THEN <<>>
  ELSE IF Len(val) >= 2 /\ val[1] = "$" /\ val[2] = "$"
    THEN <<"$">> \o ExpandReplacement(SubSeq(val, 3, Len(val)), matched)
  ELSE IF Len(val) >= 2 /\ val[1] = "$" /\ val[2] = "&"
    THEN matched \o ExpandReplacement(SubSeq(val, 3, Len(val)), matched)
  ELSE <<val[1]>> \o ExpandReplacement(Tail(val), matched)

\* s.replace(/{name}/g, val): left to right, non-overlapping, every match.
RECURSIVE ReplaceFrom(_, _, _, _)
ReplaceFrom(s, tok, val, i) ==
  IF i > Len(s) THEN <<>>
  ELSE IF MatchAt(s, tok, i)
    THEN ExpandReplacement(val, tok) \o ReplaceFrom(s, tok, val, i + Len(tok))
  ELSE <<s[i]>> \o ReplaceFrom(s, tok, val, i + 1)

ReplaceAll(s, name, val) == ReplaceFrom(s, Token(name), val, 1)

fillTemplate(tpl, data) ==
  ReplaceAll(
    ReplaceAll(
      ReplaceAll(
        ReplaceAll(
          ReplaceAll(tpl, "time", data.time),
          "epicenter", data.epicenter),
        "magnitude", data.magnitude),
      "maxIntensity", data.maxIntensity),
    "prefecture", data.prefecture)

\* ------------------------------------------------------------ field format
\* A record's time is the instant new Date(eq.time) yields, in minutes of
\* local time since 2025-03-01 00:00.
Pad2(n) == IF n < 10 THEN <<"0", ToString(n)>> ELSE <<ToString(n)>>

FormatTime(t) ==
  <<"2025", "nen", "3", "gatsu", ToString(1 + (t \div 1440)), "nichi", " ",
    ToString((t % 1440) \div 60), ":">> \o Pad2(t % 60)

\* A magnitude is a number kept in tenths; `${mag}` prints 45 as 4.5, 50 as 5.
NumberText(m) ==
  IF m % 10 = 0 THEN <<ToString(m \div 10)>>
  ELSE <<ToString(m \div 10), ".", ToString(m % 10)>>

\* JavaScript truthiness of an optional string / optional number.
TruthyString(o) == o # None /\ o[1] # <<>>
TruthyNumber(o) == o # None /\ o[1] # 0

FieldMap(eq, pref) ==
  [ time         |-> FormatTime(eq.time),
    epicenter    |-> IF TruthyString(eq.name) THEN eq.name[1] ELSE <<"UNKNOWN">>,
    magnitude    |-> IF TruthyNumber(eq.mag) THEN <<"M">> \o NumberText(eq.mag[1])
                     ELSE <<"M", "UNKNOWN">>,
    maxIntensity |-> IF TruthyString(eq.maxInt) THEN eq.maxInt[1] ELSE <<"UNKNOWN">>,
    prefecture   |-> <<pref>> ]

\* The body of the render effect: what setFilled receives.
RenderOutput(eqOpt, tpl, pref) ==
  IF eqOpt # None THEN fillTemplate(tpl, FieldMap(eqOpt[1], pref))
  ELSE NoMatchText

\* ---------------------------------------------------------- filter and sort
PrefMatchesNonEmpty(eq, pref) == eq.pref # None /\ eq.pref[1] # {}

\* eq.pref && eq.pref.includes(selectedPref), pref an array of names (line 50).
PrefMatches(eq, pref) == eq.pref # None /\ pref \in eq.pref[1]

FilterByPref(data, pref) == SelectSeq(data, LAMBDA eq : PrefMatches(eq, pref))

\* Array.prototype.sort is stable; the comparator orders newer first.
RECURSIVE InsertByTime(_, _)
InsertByTime(sorted, eq) ==
  IF sorted = <<>> THEN <<eq>>
  ELSE IF eq.time > Head(sorted).time THEN <<eq>> \o sorted
  ELSE <<Head(sorted)>> \o InsertByTime(Tail(sorted), eq)

RECURSIVE SortNewestFirst(_)
SortNewestFirst(s) ==
  IF s = <<>> THEN <<>>
  ELSE InsertByTime(SortNewestFirst(SubSeq(s, 1, Len(s) - 1)), s[Len(s)])

selectCandidates(data, pref) == SortNewestFirst(FilterByPref(data, pref))

DefaultSelection(filtered) ==
  IF Len(filtered) > 0 THEN Some(filtered[1]) ELSE None

\* ------------------------------------------------------- fetched responses
\* The records a response of the model can carry (ids unique).
RecordPool ==
  { [id |-> "a", time |-> 2045, pref |-> Some({PREFECTURES[1]}),
     name |-> Some(<<"Kushiro">>), mag |-> Some(45), maxInt |-> Some(<<"3">>)],
    [id |-> "b", time |-> 65, pref |-> Some({PREFECTURES[1], PREFECTURES[2]}),
     name |-> None, mag |-> Some(0), maxInt |-> None],
    [id |-> "c", time |-> 65, pref |-> Some({PREFECTURES[2]}),
     name |-> Some(<<>>), mag |-> None, maxInt |-> Some(<<"5-">>)] }

\* Response bodies: arrays of at most MaxRecords records with distinct ids.
Datasets ==
  { s \in UNION { [1..n -> RecordPool] : n \in 0..MaxRecords } :
      \A i, j \in 1..Len(s) : i # j => s[i].id # s[j].id }

ErrorMessages == {ApiErrorMessage, NetworkErrorMessage}

\* The texts the user types into the template editor in the model.
TemplateChoices ==
  { DefaultTemplate,
    <<>>,
    <<"{", "time", "}", " M", "{", "magnitude", "}", " ", "{", "prefecture", "}">> }

\* --------------------------------------------------------------- the shell
InflightCount == LET RECURSIVE Sum(_)
                     Sum(S) == IF S = {} THEN 0
                               ELSE LET p == CHOOSE q \in S : TRUE
                                    IN inflight[p] + Sum(S \ {p})
                 IN Sum(Prefs)

\* The last event handled, with the prefecture it concerns; fromError tells
\* whether the error was shown when the event arrived.
Event(kind, pref, info) ==
  [kind |-> kind, pref |-> pref, info |-> info, fromError |-> error # None]

RenderDepsWithoutPref(eqOpt, tpl, pref) == <<eqOpt, tpl>>

\* The dependency list of the render effect (line 87).
RenderDeps(eqOpt, tpl, pref) == <<eqOpt, tpl, pref>>

\* The render effect after a commit: it runs when a dependency changed.
RenderEffect(eqOpt, tpl, pref) ==
  IF RenderDeps(eqOpt, tpl, pref) # RenderDeps(selectedEq, template, selectedPref)
  THEN RenderOutput(eqOpt, tpl, pref)
  ELSE filled

ResponsePrefCurrent(issuedFor) == selectedPref

\* The prefecture a response is filtered by: the one the effect closed over
\* when it issued the fetch (line 50 reads the closure's selectedPref).
ResponsePref(issuedFor) == issuedFor

\* The earthquake picker, the editor and the result are shown (line 119).
PickerShown == ~loading /\ error = None

ErrorAtIssueKept == error

\* setError(null) when a fetch is issued (line 40).
ErrorAtIssue == None

AppInit ==
  /\ mounted = FALSE
  /\ selectedPref = PREFECTURES[1]
  /\ earthquakes = <<>>
  /\ selectedEq = None
  /\ template = DefaultTemplate
  /\ filled = <<>>
  /\ loading = FALSE
  /\ error = None
  /\ inflight = [p \in Prefs |-> 0]
  /\ lastEvent = [kind |-> "init", pref |-> PREFECTURES[1], info |-> "",
                  fromError |-> FALSE]

Init ==
  /\ AppInit
  /\ inp = None
  /\ out = None

\* First commit: both effects run (lines 37-63 and 66-87).
Mount ==
  /\ ~mounted
  /\ mounted' = TRUE
  /\ loading' = TRUE
  /\ error' = ErrorAtIssue
  /\ inflight' = [inflight EXCEPT ![selectedPref] = @ + 1]
  /\ filled' = RenderOutput(selectedEq, template, selectedPref)
  /\ lastEvent' = Event("mount", selectedPref, "")
  /\ UNCHANGED <<selectedPref, earthquakes, selectedEq, template, inp, out>>

\* The user picks option p of the prefecture picker (lines 104-107). Picking
\* the option already shown raises no change event and sets no state.
ChoosePref(p) ==
  /\ mounted
  /\ lastEvent' = Event("choose", p, IF p = selectedPref THEN "same" ELSE "changed")
  /\ IF p = selectedPref
     THEN UNCHANGED <<selectedPref, loading, error, inflight, filled>>
     ELSE /\ InflightCount < MaxInflight
          /\ selectedPref' = p
          /\ loading' = TRUE
          /\ error' = ErrorAtIssue
          /\ inflight' = [inflight EXCEPT ![p] = @ + 1]
          /\ filled' = RenderEffect(selectedEq, template, p)
  /\ UNCHANGED <<mounted, earthquakes, selectedEq, template, inp, out>>

\* A fetch issued for p resolves with an ok response whose body is data.
FetchSuccess(p, data) ==
  /\ inflight[p] > 0
  /\ LET filtered == selectCandidates(data, ResponsePref(p))
     IN /\ earthquakes' = filtered
        /\ selectedEq' = DefaultSelection(filtered)
        /\ filled' = RenderEffect(DefaultSelection(filtered), template, selectedPref)
        /\ lastEvent' = Event("success", p, IF Len(filtered) > 0 THEN "hit" ELSE "miss")
  /\ loading' = FALSE
  /\ inflight' = [inflight EXCEPT ![p] = @ - 1]
  /\ UNCHANGED <<mounted, selectedPref, template, error, inp, out>>

\* A fetch issued for p rejects, or resolves not ok (line 45), with message msg.
FetchFailure(p, msg) ==
  /\ inflight[p] > 0
  /\ error' = Some(msg)
  /\ loading' = FALSE
  /\ inflight' = [inflight EXCEPT ![p] = @ - 1]
  /\ lastEvent' = Event("failure", p, msg)
  /\ UNCHANGED <<mounted, selectedPref, earthquakes, selectedEq, template, filled,
                 inp, out>>

\* earthquakes.find((eq) => eq.id === value): the first record with that id.
FindById(list, id) ==
  IF \E i \in 1..Len(list) : list[i].id = id
  THEN Some(list[CHOOSE i \in 1..Len(list) :
                   /\ list[i].id = id
                   /\ \A j \in 1..(i - 1) : list[j].id # id])
  ELSE None

\* The user picks an option of the earthquake picker (lines 123-129).
SelectEarthquake(id) ==
  /\ mounted
  /\ PickerShown
  /\ Len(earthquakes) # 0
  /\ \E i \in 1..Len(earthquakes) : earthquakes[i].id = id
  /\ selectedEq' = FindById(earthquakes, id)
  /\ filled' = RenderEffect(FindById(earthquakes, id), template, selectedPref)
  /\ lastEvent' = Event("pick", selectedPref, id)
  /\ UNCHANGED <<mounted, selectedPref, earthquakes, template, loading, error,
                 inflight, inp, out>>

\* The user edits the template (lines 151-153).
EditTemplate(t) ==
  /\ mounted
  /\ PickerShown
  /\ template' = t
  /\ filled' = RenderEffect(selectedEq, t, selectedPref)
  /\ lastEvent' = Event("edit", selectedPref, "")
  /\ UNCHANGED <<mounted, selectedPref, earthquakes, selectedEq, loading, error,
                 inflight, inp, out>>

Next ==
  \/ Mount
  \/ \E p \in Prefs : ChoosePref(p)
  \/ \E p \in Prefs, data \in Datasets : FetchSuccess(p, data)
  \/ \E p \in Prefs, msg \in ErrorMessages : FetchFailure(p, msg)
  \/ \E id \in {r.id : r \in RecordPool} : SelectEarthquake(id)
  \/ \E t \in TemplateChoices : EditTemplate(t)

Spec == Init /\ [][Next]_vars

\* ------------------------------------------------- the pure functions alone
\* Field values a caller can hand to fillTemplate.
FillValues ==
  [ time         |-> { <<"T">>, <<"{", "epicenter", "}">> },
    epicenter    |-> { <<"E">>, <<"{", "prefecture", "}">>, <<"$", "&">>, <<"$", "$">> },
    magnitude    |-> { <<"M", "5">> },
    maxIntensity |-> { <<"3">> },
    prefecture   |-> { <<"Hokkaido">>, <<"{", "time", "}">> } ]

FillFieldMaps ==
  [ time : FillValues.time, epicenter : FillValues.epicenter,
    magnitude : FillValues.magnitude, maxIntensity : FillValues.maxIntensity,
    prefecture : FillValues.prefecture ]

TokenNames == {"time", "epicenter", "magnitude", "maxIntensity", "prefecture"}

TemplatePieces ==
  {Token(n) : n \in TokenNames} \cup
  { <<"x">>, <<"{">>, <<"}">>, <<"{", "x", "}">>, <<"time">> }

RECURSIVE Concatenations(_)
Concatenations(n) ==
  IF n = 0 THEN { <<>> }
  ELSE LET shorter == Concatenations(n - 1)
       IN shorter \cup { a \o b : a \in shorter, b \in TemplatePieces }

FillTemplates == Concatenations(MaxPieces)

InitFill ==
  /\ AppInit
  /\ inp \in [template : FillTemplates, data : FillFieldMaps]
  /\ out = None

CallFillTemplate ==
  /\ out = None
  /\ out' = Some(fillTemplate(inp.template, inp.data))
  /\ UNCHANGED <<appVars, inp>>

SpecFill == InitFill /\ [][CallFillTemplate]_vars

\* Records a response can carry, by the fields the selector reads.
SelectRecords ==
  [ id : {"a"}, time : {0, 65, 2045},
    pref : { None, Some({}), Some({PREFECTURES[1]}),
             Some({PREFECTURES[1], PREFECTURES[2]}) },
    name : {None}, mag : {None}, maxInt : {None} ]

InitSelect ==
  /\ AppInit
  /\ inp \in [data : UNION { [1..n -> SelectRecords] : n \in 0..(MaxRecords + 1) },
              pref : Prefs]
  /\ out = None

\* Lines 49-54 on a response body: the list and the selection that are set.
CallSelectCandidates ==
  /\ out = None
  /\ LET filtered == selectCandidates(inp.data, inp.pref)
     IN out' = Some([list |-> filtered, selection |-> DefaultSelection(filtered)])
  /\ UNCHANGED <<appVars, inp>>

SpecSelect == InitSelect /\ [][CallSelectCandidates]_vars

\* Records by the fields the field map reads.
FieldRecords ==
  [ id : {"a"}, time : {65, 2045}, pref : {Some({PREFECTURES[2]})},
    name : {None, Some(<<>>), Some(<<"Kushiro">>)},
    mag : {None, Some(0), Some(45), Some(60)},
    maxInt : {None, Some(<<"3">>)} ]

InitFields ==
  /\ AppInit
  /\ inp \in [eq : FieldRecords, pref : Prefs]
  /\ out = None

\* Lines 76-82 for a selected record and the selected prefecture.
CallFieldMap ==
  /\ out = None
  /\ out' = Some(FieldMap(inp.eq, inp.pref))
  /\ UNCHANGED <<appVars, inp>>

SpecFields == InitFields /\ [][CallFieldMap]_vars

\* ===================================================================== claims
InList(eq, list) == \E i \in 1..Len(list) : list[i] = eq

AtRest == mounted /\ InflightCount = 0 /\ ~loading /\ error = None

\* C1: in every reachable state a non-null selected earthquake is a member of
\* the candidate list and its prefecture set contains the selected prefecture.
C1_SelectionBelongsToPrefecture ==
  selectedEq # None =>
    /\ InList(selectedEq[1], earthquakes)
    /\ selectedEq[1].pref # None
    /\ selectedPref \in selectedEq[1].pref[1]

\* C2: at most one fetch is outstanding at any time.
C2_AtMostOneFetchOutstanding == InflightCount <= 1

\* C3: a response is applied by filtering for the prefecture its fetch was
\* issued for, whatever prefecture is selected when it arrives (latest response
\* wins): right after a successful response every candidate affects the
\* prefecture of that fetch and the selection is the first candidate.
C3_LatestResponseWins ==
  lastEvent.kind = "success" =>
    /\ \A i \in 1..Len(earthquakes) :
         /\ earthquakes[i].pref # None
         /\ lastEvent.pref \in earthquakes[i].pref[1]
    /\ selectedEq = (IF earthquakes = <<>> THEN None ELSE Some(earthquakes[1]))

\* C3 witness: the application rests, no error shown, on prefecture P2 with the
\* list and selection of a response issued for P1, which do not affect P2.
C3_StaleResponseAtRest ==
  /\ AtRest
  /\ lastEvent.kind = "success"
  /\ lastEvent.pref # selectedPref
  /\ selectedEq # None
  /\ InList(selectedEq[1], earthquakes)
  /\ lastEvent.pref \in selectedEq[1].pref[1]
  /\ selectedPref \notin selectedEq[1].pref[1]

\* C6: once the render effect has run, the output is the sentinel when nothing
\* is selected, and otherwise fillTemplate of the current template and the
\* field map of the current selection and the current prefecture.
C6_OutputFollowsState ==
  mounted =>
    /\ selectedEq = None => filled = NoMatchText
    /\ selectedEq # None =>
         filled = fillTemplate(template, FieldMap(selectedEq[1], selectedPref))

\* C6 witness: a record is selected under an edited template after the
\* prefecture was changed away from the one the record was fetched for.
C6_RenderedAfterChanges ==
  /\ mounted
  /\ selectedEq # None
  /\ template # DefaultTemplate
  /\ template # <<>>
  /\ selectedPref # PREFECTURES[1]
  /\ lastEvent.kind = "choose"
  /\ lastEvent.info = "changed"
  /\ filled # NoMatchText

\* C7: every fetch completion leaves the state its outcome determines:
\* loaded-with-results, loaded-empty, or the error state with the message.
C7_CompletionDeterminesState ==
  /\ (lastEvent.kind = "success" /\ lastEvent.info = "hit") =>
       (~loading /\ error = None /\ earthquakes # <<>> /\ selectedEq # None)
  /\ (lastEvent.kind = "success" /\ lastEvent.info = "miss") =>
       (~loading /\ error = None /\ earthquakes = <<>> /\ selectedEq = None)
  /\ lastEvent.kind = "failure" =>
       (~loading /\ error = Some(lastEvent.info) /\ ~PickerShown)

\* C8 as stated: from the error state, choosing any prefecture in the picker,
\* the current one included, clears the error and issues a new fetch.
C8_AnyChoiceClearsError ==
  (lastEvent.kind = "choose" /\ lastEvent.fromError) =>
    (error = None /\ loading /\ inflight[lastEvent.pref] > 0)

ChooseStep == lastEvent'.kind = "choose" /\ lastEvent' # lastEvent

SuccessStep == lastEvent'.kind = "success" /\ InflightCount' = InflightCount - 1

\* C8 amended: from the error state, choosing a prefecture other than the
\* current one clears the error, sets loading and issues one new fetch for it;
\* re-choosing the current one changes nothing. A successful response then ends
\* loading and installs its list and default selection without setting an error.
C8_ChangeClearsError ==
  [][ /\ (error # None /\ ChooseStep) =>
           IF lastEvent'.pref # selectedPref
           THEN /\ selectedPref' = lastEvent'.pref
                /\ error' = None
                /\ loading'
                /\ inflight' = [inflight EXCEPT ![selectedPref'] = @ + 1]
           ELSE UNCHANGED <<selectedPref, error, loading, inflight, earthquakes,
                            selectedEq, template, filled>>
      /\ SuccessStep =>
           /\ ~loading'
           /\ error' = error
           /\ selectedEq' = (IF earthquakes' = <<>> THEN None
                             ELSE Some(earthquakes'[1]))
    ]_vars

\* C8 witness: the error was shown, the user chose another prefecture, and the
\* error is cleared with the new fetch in flight.
C8_RecoveringFromError ==
  /\ lastEvent.kind = "choose"
  /\ lastEvent.fromError
  /\ lastEvent.info = "changed"
  /\ selectedPref = lastEvent.pref
  /\ error = None
  /\ loading
  /\ inflight[selectedPref] > 0

\* C10: loading is true exactly while a fetch is in flight.
C10_LoadingIffFetchInFlight ==
  mounted => (loading <=> InflightCount > 0)

\* --------------------------------------------------------- claims, pure specs
Count(seq, r) == Cardinality({i \in 1..Len(seq) : seq[i] = r})

Elements(seq) == {seq[i] : i \in 1..Len(seq)}

\* C4: the candidate list holds exactly the records of the response whose
\* prefecture set contains the prefecture (none added, none dropped, records
\* without a prefecture set excluded), newest first, and the default selection
\* is its first element, or null when it is empty.
C4_CandidatesExactAndOrdered ==
  out # None =>
    LET list == out[1].list
        selection == out[1].selection
    IN /\ \A r \in Elements(inp.data) \cup Elements(list) :
            Count(list, r) =
              (IF r.pref # None /\ inp.pref \in r.pref[1]
               THEN Count(inp.data, r) ELSE 0)
       /\ \A i \in 1..(Len(list) - 1) : list[i].time >= list[i + 1].time
       /\ selection = (IF Len(list) = 0 THEN None ELSE Some(list[1]))

\* C4 witness: a response given oldest first, with a record that does not affect
\* the prefecture and one with no prefecture set, yields two candidates.
C4_FilteredAndReordered ==
  /\ out # None
  /\ Len(inp.data) = 3
  /\ Len(out[1].list) = 2
  /\ out[1].list[1].time > out[1].list[2].time
  /\ inp.data[1].time < inp.data[3].time
  /\ inp.data[1].pref # None /\ inp.pref \in inp.data[1].pref[1]
  /\ inp.data[3].pref # None /\ inp.pref \in inp.data[3].pref[1]
  /\ out[1].selection = Some(inp.data[3])

\* The single-pass literal substitution: at each position a recognized token is
\* replaced by its field value, copied as it is, and any other symbol is kept.
RECURSIVE SinglePassFrom(_, _, _)
SinglePassFrom(tpl, data, i) ==
  IF i > Len(tpl) THEN <<>>
  ELSE IF \E n \in TokenNames : MatchAt(tpl, Token(n), i)
    THEN LET n == CHOOSE m \in TokenNames : MatchAt(tpl, Token(m), i)
         IN data[n] \o SinglePassFrom(tpl, data, i + 3)
  ELSE <<tpl[i]>> \o SinglePassFrom(tpl, data, i + 1)

\* C5: fillTemplate(T, F) is the single-pass literal substitution of T.
C5_FillIsSinglePassLiteral ==
  out # None => out[1] = SinglePassFrom(inp.template, inp.data, 1)

\* C9: the field map degrades field by field: magnitude is "M" and the number
\* whenever the record has a magnitude, epicenter and maximum intensity are the
\* record's values whenever present, the markers appear only for absent fields,
\* and the prefecture is the selected one.
C9_FieldMapDegradesOnlyWhenAbsent ==
  out # None =>
    /\ out[1].magnitude = (IF inp.eq.mag # None
                           THEN <<"M">> \o NumberText(inp.eq.mag[1])
                           ELSE <<"M", "UNKNOWN">>)
    /\ out[1].epicenter = (IF inp.eq.name # None THEN inp.eq.name[1]
                           ELSE <<"UNKNOWN">>)
    /\ out[1].maxIntensity = (IF inp.eq.maxInt # None THEN inp.eq.maxInt[1]
                              ELSE <<"UNKNOWN">>)
    /\ out[1].prefecture = <<inp.pref>>

====
